---- MODULE Spec2Model ----
(***************************************************************************)
(* Model of sentiment-analysis.py: the vocabulary builder (create_vocab),  *)
(* the integer encoding of tokens, the bucketed batch iterator             *)
(* (BucketSentenceIter), the in-memory sharding of the training data and   *)
(* the epoch loop of train().                                              *)
(*                                                                         *)
(* Python lists are 1-based TLA+ sequences here; a Python index i is the   *)
(* TLA+ index i + 1.  Dictionaries are functions on their key set.         *)
(***************************************************************************)
EXTENDS Integers, Sequences, FiniteSets

VARIABLES
    vpc,            \* vocabulary pipeline: "off", "corpus", "vocab", "encoded"
    corpus,         \* create_vocab's `sentences`: list of lists of token strings
    min_count,      \* create_vocab's min_count
    num_words,      \* create_vocab's num_words
    word_to_id,     \* the dictionary create_vocab returns
    encoded,        \* list of the ids produced by the last encoding of a line
    ipc,            \* iterator: "off", "new", "ready", "error"
    args,           \* arguments of BucketSentenceIter.__init__
    it,             \* the fields of the BucketSentenceIter object
    batch,          \* outcome of the last call: a batch, StopIteration, or None (reset)
    served,         \* ghost: the batches returned since the last reset()
    spc,            \* sharding: "off", "run"
    hosts,          \* train()'s hosts
    ntrain,         \* len(train_sentences)
    shard,          \* per host: the <<start, end>> it computed, <<>> before that
    tpc,            \* train(): "off", "start", "train", "val", "done", "error"
    tr,             \* train()'s local state
    train_iterator, \* train()'s train_iterator
    val_iterator    \* train()'s val_iterator

vocabVars == <<vpc, corpus, min_count, num_words, word_to_id, encoded>>
iterVars  == <<ipc, args, it, batch, served>>
shardVars == <<spc, hosts, ntrain, shard>>
trainVars == <<tpc, tr, train_iterator, val_iterator>>
vars == <<vocabVars, iterVars, shardVars, trainVars>>

(***************************************************************************)
(* Bounds of the model.                                                    *)
(***************************************************************************)
MaxTokens == 5      \* tokens in a corpus
MaxSent   == 2      \* sentences given to a BucketSentenceIter
MaxTrainSent == 2   \* training sentences of the epoch loop
MaxValSent == 1     \* validation sentences of the epoch loop
MaxTrain  == 5      \* training sentences that are sharded
MaxEpochs == 2      \* epochs of train()

Min(a, b) == IF a < b THEN a ELSE b
Max(a, b) == IF a < b THEN b ELSE a

\* All sequences over S of length 0 .. n.
SeqsUpTo(S, n) == UNION {[1..k -> S] : k \in 0..n}

(***************************************************************************)
(* Token strings.  Python compares str by code point; StrOrder lists the   *)
(* strings of the model in ascending Python order                          *)
(* ('/' = 47 < 'p' = 112 < 's' = 115 < 'u' = 117, and '<' = 60 < 'a' = 97).*)
(***************************************************************************)
StrOrder == <<"</s>", "<pad>", "<s>", "<unk>", "a", "b", "zz">>
StrRank(w) == CHOOSE i \in 1..Len(StrOrder) : StrOrder[i] = w
StrLess(u, v) == StrRank(u) < StrRank(v)

\* Tokens a corpus line is drawn from, and tokens a request may contain.
CorpusTokens  == {"<pad>", "a", "b"}
RequestTokens == {"<pad>", "<unk>", "a", "b", "zz"}

\* Parameter values of create_vocab that are explored (5 and 100000 are the defaults).
MinCounts == {1, 2, 5}
NumWords  == {1, 100000}
\* Tokens per line of the corpora that are explored.
LineWidths == {1, 2}

(***************************************************************************)
(* create_vocab                                                            *)
(***************************************************************************)
VOCAB_SYMBOLS == <<"<pad>", "<unk>", "<s>", "</s>">>

\* chain.from_iterable: token for line in sentences for token in line
RECURSIVE Flatten(_)
Flatten(ss) == IF ss = <<>> THEN <<>> ELSE Head(ss) \o Flatten(Tail(ss))

\* Counter(...): a dict, i.e. the list of (word, count) items in insertion order.
RECURSIVE CounterAdd(_, _)
CounterAdd(items, w) ==
    IF items = <<>> THEN << <<w, 1>> >>
    ELSE IF Head(items)[1] = w THEN << <<w, Head(items)[2] + 1>> >> \o Tail(items)
    ELSE <<Head(items)>> \o CounterAdd(Tail(items), w)

RECURSIVE Counter(_)
Counter(toks) ==
    IF toks = <<>> THEN <<>>
    ELSE CounterAdd(Counter(SubSeq(toks, 1, Len(toks) - 1)), toks[Len(toks)])

\* ((c, w) for w, c in raw_vocab.items() if c >= min_count)
RECURSIVE Pruned(_, _)
Pruned(items, mc) ==
    IF items = <<>> THEN <<>>
    ELSE (IF Head(items)[2] >= mc THEN << <<Head(items)[2], Head(items)[1]>> >> ELSE <<>>)
         \o Pruned(Tail(items), mc)

\* Python's tuple comparison of (count, word) pairs.
TupleLess(p, q) == p[1] < q[1] \/ (p[1] = q[1] /\ StrLess(p[2], q[2]))

\* Variant of SortedReverse: the pairs are left in the order of the Counter's items.
Unsorted(pairs) == pairs

\* sorted(pairs, reverse=True)
RECURSIVE InsertDesc(_, _)
InsertDesc(sorted, p) ==
    IF sorted = <<>> THEN <<p>>
    ELSE IF TupleLess(Head(sorted), p) THEN <<p>> \o sorted
    ELSE <<Head(sorted)>> \o InsertDesc(Tail(sorted), p)

RECURSIVE SortedReverse(_)
SortedReverse(pairs) ==
    IF pairs = <<>> THEN <<>>
    ELSE InsertDesc(SortedReverse(Tail(pairs)), Head(pairs))

\* islice((w for c, w in pruned_vocab), num_words)
Islice(pruned, n) == [i \in 1..Min(n, Len(pruned)) |-> pruned[i][2]]

\* {word: idx for idx, word in enumerate(chain(VOCAB_SYMBOLS, vocab))}:
\* a later occurrence of a key overwrites the earlier value.
DictFromEnumerate(words) ==
    [w \in {words[i] : i \in 1..Len(words)} |->
        (CHOOSE i \in 1..Len(words) :
            words[i] = w /\ \A j \in 1..Len(words) : words[j] = w => j <= i) - 1]

create_vocab(sentences, mc, nw) ==
    LET raw_vocab    == Counter(Flatten(sentences))
        pruned_vocab == SortedReverse(Pruned(raw_vocab, mc))
        vocab        == Islice(pruned_vocab, nw)
    IN  DictFromEnumerate(VOCAB_SYMBOLS \o vocab)

\* vocab.get(token, 1)
VocabGet(vocab, token) == IF token \in DOMAIN vocab THEN vocab[token] ELSE 1

\* [vocab.get(token, 1) for token in line]
EncodeLine(vocab, line) == [i \in 1..Len(line) |-> VocabGet(vocab, line[i])]

VocabOff ==
    /\ vpc = "off" /\ corpus = <<>> /\ min_count = 0 /\ num_words = 0
    /\ word_to_id = <<>> /\ encoded = <<>>

\* A corpus as get_dataset returns it: the tokens `flat`, w to a line.
RECURSIVE Lines(_, _)
Lines(flat, w) ==
    IF flat = <<>> THEN <<>>
    ELSE <<SubSeq(flat, 1, Min(w, Len(flat)))>>
         \o Lines(SubSeq(flat, Min(w, Len(flat)) + 1, Len(flat)), w)

InitVocab ==
    /\ vpc = "corpus"
    /\ \E flat \in SeqsUpTo(CorpusTokens, MaxTokens), w \in LineWidths :
        corpus = Lines(flat, w)
    /\ min_count \in MinCounts
    /\ num_words \in NumWords
    /\ word_to_id = <<>>
    /\ encoded = <<>>

\* vocab = create_vocab(train_sentences), or with explicit parameters
CreateVocab ==
    /\ vpc = "corpus"
    /\ word_to_id' = create_vocab(corpus, min_count, num_words)
    /\ vpc' = "vocab"
    /\ UNCHANGED <<corpus, min_count, num_words, encoded>>
    /\ UNCHANGED <<iterVars, shardVars, trainVars>>

\* train(): one line of train_sentences is encoded
EncodeTrain ==
    /\ vpc \in {"vocab", "encoded"}
    /\ \E i \in 1..Len(corpus) :
        encoded' = EncodeLine(word_to_id, corpus[i])
    /\ vpc' = "encoded"
    /\ UNCHANGED <<corpus, min_count, num_words, word_to_id>>
    /\ UNCHANGED <<iterVars, shardVars, trainVars>>

\* transform_fn(): one row of a request is encoded
TransformEncode ==
    /\ vpc \in {"vocab", "encoded"}
    /\ \E row \in SeqsUpTo(RequestTokens, 1) :
        encoded' = EncodeLine(word_to_id, row)
    /\ vpc' = "encoded"
    /\ UNCHANGED <<corpus, min_count, num_words, word_to_id>>
    /\ UNCHANGED <<iterVars, shardVars, trainVars>>


(***************************************************************************)
(* BucketSentenceIter                                                      *)
(***************************************************************************)
\* All permutations of 0 .. n-1, as sequences (np.random.permutation(n)).
Permutations(n) ==
    {p \in [1..n -> 0..(n - 1)] : \A i, j \in 1..n : p[i] = p[j] => i = j}

\* a[p] for a numpy array a and an index array p
Take(a, p) == [k \in 1..Len(p) |-> a[p[k] + 1]]

\* Conversion of an integer to dtype float32: exact up to 2^24, to the nearest
\* even integer in the binade above it (the model's values stay below 2^25).
Float32(x) ==
    LET m == IF x < 0 THEN -x ELSE x
        r == IF m <= 16777216 THEN m
             ELSE IF m % 2 = 0 THEN m
             ELSE IF ((m - 1) \div 2) % 2 = 0 THEN m - 1 ELSE m + 1
    IN  IF x < 0 THEN -r ELSE r

\* np.bincount(lens)[v], for v in 0 .. max(lens)
BinCount(lens, v) == Cardinality({k \in 1..Len(lens) : lens[k] = v})

RECURSIVE MaxOf(_)
MaxOf(S) == LET x == CHOOSE y \in S : TRUE
            IN  IF S = {x} THEN x ELSE Max(x, MaxOf(S \ {x}))

\* [i for i, j in enumerate(np.bincount([len(s) for s in sentences])) if j >= batch_size]
RECURSIVE BucketsFrom(_, _, _, _)
BucketsFrom(v, top, lens, batch_size) ==
    IF v > top THEN <<>>
    ELSE (IF BinCount(lens, v) >= batch_size THEN <<v>> ELSE <<>>)
         \o BucketsFrom(v + 1, top, lens, batch_size)

GenerateBuckets(sentences, batch_size) ==
    LET lens == [k \in 1..Len(sentences) |-> Len(sentences[k])]
    IN  IF lens = <<>> THEN <<>>
        ELSE BucketsFrom(0, MaxOf({lens[k] : k \in 1..Len(lens)}), lens, batch_size)

\* buckets.sort()
RECURSIVE InsertAsc(_, _)
InsertAsc(sorted, x) ==
    IF sorted = <<>> THEN <<x>>
    ELSE IF x < Head(sorted) THEN <<x>> \o sorted
    ELSE <<Head(sorted)>> \o InsertAsc(Tail(sorted), x)

RECURSIVE SortAsc(_)
SortAsc(xs) == IF xs = <<>> THEN <<>> ELSE InsertAsc(SortAsc(Tail(xs)), Head(xs))

\* Variant of BisectLeftFrom: bisect_right, the insertion point after equal entries.
RECURSIVE BisectRightFrom(_, _, _, _)
BisectRightFrom(a, x, lo, hi) ==
    IF lo < hi
    THEN LET mid == (lo + hi) \div 2
         IN  IF a[mid + 1] <= x THEN BisectRightFrom(a, x, mid + 1, hi)
             ELSE BisectRightFrom(a, x, lo, mid)
    ELSE lo

\* bisect.bisect_left(a, x): the binary search of the standard library, 0-based result
RECURSIVE BisectLeftFrom(_, _, _, _)
BisectLeftFrom(a, x, lo, hi) ==
    IF lo < hi
    THEN LET mid == (lo + hi) \div 2
         IN  IF a[mid + 1] < x THEN BisectLeftFrom(a, x, mid + 1, hi)
             ELSE BisectLeftFrom(a, x, lo, mid)
    ELSE lo

bisect_left(a, x) == BisectLeftFrom(a, x, 0, Len(a))

\* Variant of PadRow: the row is padded with 0 whatever invalid_label is.
PadRowZeros(sent, size, invalid_label) ==
    [k \in 1..size |-> IF k <= Len(sent) THEN Float32(sent[k]) ELSE 0]

\* buff = np.full((size,), invalid_label); buff[:len(sent)] = sent
PadRow(sent, size, invalid_label) ==
    [k \in 1..size |-> IF k <= Len(sent) THEN Float32(sent[k]) ELSE Float32(invalid_label)]

\* The loop of __init__ over enumerate(sentences): the state after the first n sentences.
\* src is a ghost field: the (0-based) index of the sentence each row was built from.
RECURSIVE Fill(_, _, _, _, _)
Fill(sentences, labels, buckets, invalid_label, n) ==
    IF n = 0
    THEN [data   |-> [b \in 1..Len(buckets) |-> <<>>],
          labels |-> [b \in 1..Len(buckets) |-> <<>>],
          src    |-> [b \in 1..Len(buckets) |-> <<>>],
          ndiscard |-> 0]
    ELSE LET prev == Fill(sentences, labels, buckets, invalid_label, n - 1)
             sent == sentences[n]
             buck == bisect_left(buckets, Len(sent))
         IN  IF buck = Len(buckets)
             THEN [prev EXCEPT !.ndiscard = @ + 1]
             ELSE [prev EXCEPT
                     !.data[buck + 1] = Append(@, PadRow(sent, buckets[buck + 1], invalid_label)),
                     !.labels[buck + 1] = Append(@, Float32(labels[n])),
                     !.src[buck + 1] = Append(@, n - 1)]

\* Variant of RangeStep: the stop value is included.
RECURSIVE RangeStepThrough(_, _, _)
RangeStepThrough(from, stop, step) ==
    IF from > stop THEN <<>> ELSE <<from>> \o RangeStepThrough(from + step, stop, step)

\* range(0, n - batch_size + 1, batch_size)
RECURSIVE RangeStep(_, _, _)
RangeStep(from, stop, step) ==
    IF from >= stop THEN <<>> ELSE <<from>> \o RangeStep(from + step, stop, step)

\* self.idx: for i, buck in enumerate(self.data): extend with (i, j)
RECURSIVE BuildIdx(_, _, _)
BuildIdx(data, batch_size, n) ==
    IF n = 0 THEN <<>>
    ELSE LET js == RangeStep(0, Len(data[n]) - batch_size + 1, batch_size)
         IN  BuildIdx(data, batch_size, n - 1) \o [k \in 1..Len(js) |-> <<n - 1, js[k]>>]

\* layout.find('N')
LayoutFind(layout) == IF layout = "NT" THEN 0 ELSE IF layout = "TN" THEN 1 ELSE -1

\* One choice of a permutation for every bucket.
RECURSIVE BucketPermutations(_, _)
BucketPermutations(data, n) ==
    IF n = 0 THEN {<<>>}
    ELSE {Append(ps, p) : ps \in BucketPermutations(data, n - 1),
                          p \in Permutations(Len(data[n]))}

\* Variant of ResetResults: curr_idx is left where it is.
ResetKeepsPosition(self) ==
    {[self EXCEPT
        !.idx      = Take(self.idx, pi),
        !.data     = [b \in DOMAIN self.data |-> Take(self.data[b], ps[b])],
        !.labels   = [b \in DOMAIN self.data |-> Take(self.labels[b], ps[b])],
        !.src      = [b \in DOMAIN self.data |-> Take(self.src[b], ps[b])],
        !.nddata   = [b \in DOMAIN self.data |-> Take(self.data[b], ps[b])],
        !.ndlabel  = [b \in DOMAIN self.data |-> Take(self.labels[b], ps[b])]] :
     pi \in Permutations(Len(self.idx)),
     ps \in BucketPermutations(self.data, Len(self.data))}

\* Variant of ResetResults: the labels of a bucket are not permuted with its data.
ResetLabelsInPlace(self) ==
    {[self EXCEPT
        !.curr_idx = 0,
        !.idx      = Take(self.idx, pi),
        !.data     = [b \in DOMAIN self.data |-> Take(self.data[b], ps[b])],
        !.src      = [b \in DOMAIN self.data |-> Take(self.src[b], ps[b])],
        !.nddata   = [b \in DOMAIN self.data |-> Take(self.data[b], ps[b])],
        !.ndlabel  = self.labels] :
     pi \in Permutations(Len(self.idx)),
     ps \in BucketPermutations(self.data, Len(self.data))}

\* reset(): every object the call can leave behind.
ResetResults(self) ==
    {[self EXCEPT
        !.curr_idx = 0,
        !.idx      = Take(self.idx, pi),
        !.data     = [b \in DOMAIN self.data |-> Take(self.data[b], ps[b])],
        !.labels   = [b \in DOMAIN self.data |-> Take(self.labels[b], ps[b])],
        !.src      = [b \in DOMAIN self.data |-> Take(self.src[b], ps[b])],
        !.nddata   = [b \in DOMAIN self.data |-> Take(self.data[b], ps[b])],
        !.ndlabel  = [b \in DOMAIN self.data |-> Take(self.labels[b], ps[b])]] :
     pi \in Permutations(Len(self.idx)),
     ps \in BucketPermutations(self.data, Len(self.data))}

\* __init__ raises: max() of an empty bucket list, or an invalid layout.
InitRaises(a) ==
    LET buckets == IF a.buckets = <<>> THEN GenerateBuckets(a.sentences, a.batch_size)
                   ELSE a.buckets
    IN  buckets = <<>> \/ LayoutFind(a.layout) = -1

\* __init__ up to (not including) its final self.reset()
Constructed(a) ==
    LET buckets == SortAsc(IF a.buckets = <<>>
                           THEN GenerateBuckets(a.sentences, a.batch_size)
                           ELSE a.buckets)
        filled  == Fill(a.sentences, a.labels, buckets, a.invalid_label, Len(a.sentences))
    IN  [data |-> filled.data, labels |-> filled.labels, src |-> filled.src,
         ndiscard |-> filled.ndiscard,
         batch_size |-> a.batch_size, buckets |-> buckets,
         invalid_label |-> a.invalid_label,
         nddata |-> <<>>, ndlabel |-> <<>>,
         major_axis |-> LayoutFind(a.layout), layout |-> a.layout,
         default_bucket_key |-> MaxOf({buckets[k] : k \in 1..Len(buckets)}),
         idx |-> BuildIdx(filled.data, a.batch_size, Len(buckets)),
         curr_idx |-> 0]

\* x.T of a 2-d array with `cols` columns
Transpose(rows, cols) == [c \in 1..cols |-> [r \in 1..Len(rows) |-> rows[r][c]]]

\* a[j:j+n]
Slice(a, j, n) == SubSeq(a, j + 1, Min(j + n, Len(a)))

\* next(): the batch returned when curr_idx < len(idx)
NextBatch(self) ==
    LET i == self.idx[self.curr_idx + 1][1]
        j == self.idx[self.curr_idx + 1][2]
        rows == Slice(self.nddata[i + 1], j, self.batch_size)
        labs == Slice(self.ndlabel[i + 1], j, self.batch_size)
    IN  [data  |-> IF self.major_axis = 1 THEN Transpose(rows, self.buckets[i + 1]) ELSE rows,
         label |-> labs,
         bucket_key |-> self.buckets[i + 1],
         pad |-> 0,
         src |-> Slice(self.src[i + 1], j, self.batch_size)]

\* Variant of NextRaises: StopIteration one batch early.
NextRaisesEarly(self) == self.curr_idx >= Len(self.idx) - 1

NextRaises(self) == self.curr_idx = Len(self.idx)

AfterNext(self) == [self EXCEPT !.curr_idx = @ + 1]

\* Encoded sentences, batch sizes, bucket arguments (<<>> is None) and layouts explored.
SentPool      == {<<>>, <<4>>, <<5, 1>>, <<4, 0, 6>>}
BatchSizes    == {1, 2}
BucketChoices == {<<>>, <<2, 1>>, <<3, 1>>}
Layouts       == {"NT", "TN"}
InvalidLabels == {0, 7}

NoBatch == [kind |-> "None"]
NoIter  == [curr_idx |-> 0, idx |-> <<>>]

IterOff == ipc = "off" /\ args = <<>> /\ it = NoIter /\ batch = NoBatch /\ served = <<>>

InitIter ==
    /\ ipc = "new"
    /\ \E ss \in SeqsUpTo(SentPool, MaxSent), bs \in BatchSizes,
          bk \in BucketChoices, ly \in Layouts, il \in InvalidLabels :
        args = [sentences |-> ss, labels |-> [k \in 1..Len(ss) |-> k % 2],
                batch_size |-> bs, buckets |-> bk, invalid_label |-> il, layout |-> ly]
    /\ it = NoIter
    /\ batch = NoBatch
    /\ served = <<>>

\* BucketSentenceIter(sentences, labels, batch_size, ...), ending in self.reset()
Construct ==
    /\ ipc = "new"
    /\ ~InitRaises(args)
    /\ it' \in ResetResults(Constructed(args))
    /\ ipc' = "ready"
    /\ UNCHANGED <<args, batch, served>>
    /\ UNCHANGED <<vocabVars, shardVars, trainVars>>

\* the constructor raises ValueError
ConstructRaises ==
    /\ ipc = "new"
    /\ InitRaises(args)
    /\ ipc' = "error"
    /\ UNCHANGED <<args, it, batch, served>>
    /\ UNCHANGED <<vocabVars, shardVars, trainVars>>

\* it.reset()
Reset ==
    /\ ipc = "ready"
    /\ it' \in ResetResults(it)
    /\ batch' = NoBatch
    /\ served' = <<>>
    /\ UNCHANGED <<ipc, args>>
    /\ UNCHANGED <<vocabVars, shardVars, trainVars>>

\* it.next() returns a batch
Next ==
    /\ ipc = "ready"
    /\ ~NextRaises(it)
    /\ batch' = [kind |-> "batch", value |-> NextBatch(it)]
    /\ it' = AfterNext(it)
    /\ served' = Append(served, NextBatch(it).src)
    /\ UNCHANGED <<ipc, args>>
    /\ UNCHANGED <<vocabVars, shardVars, trainVars>>

\* it.next() raises StopIteration
NextStop ==
    /\ ipc = "ready"
    /\ NextRaises(it)
    /\ batch' = [kind |-> "StopIteration"]
    /\ UNCHANGED <<ipc, args, it, served>>
    /\ UNCHANGED <<vocabVars, shardVars, trainVars>>

(***************************************************************************)
(* train(): the in-memory split of the training data over the hosts        *)
(***************************************************************************)
HostNames == {"algo-1", "algo-2", "algo-3"}

\* Lists of distinct host names
HostLists ==
    {h \in SeqsUpTo(HostNames, Cardinality(HostNames)) :
        Len(h) > 0 /\ \A i, j \in 1..Len(h) : h[i] = h[j] => i = j}

\* for i, host in enumerate(hosts): if host == current_host: ... break
FirstIndex(hs, current_host) ==
    (CHOOSE i \in 1..Len(hs) :
        hs[i] = current_host /\ \A j \in 1..(i - 1) : hs[j] # current_host) - 1

\* Variant of ShardRange: the hosts are counted from 1.
ShardRangeOneBased(hs, current_host, n) ==
    LET shard_size == n \div Len(hs)
        start == shard_size * (FirstIndex(hs, current_host) + 1)
    IN  <<start, start + shard_size>>

\* shard_size, start and end of train() for current_host: <<start, end>>
ShardRange(hs, current_host, n) ==
    LET shard_size == n \div Len(hs)
        start == shard_size * FirstIndex(hs, current_host)
    IN  <<start, start + shard_size>>

\* The (0-based) indices of a list of length n that the slice [start:end] selects
SliceIndices(range, n) == {k \in 0..(n - 1) : range[1] <= k /\ k < range[2]}

ShardOff == spc = "off" /\ hosts = <<>> /\ ntrain = 0 /\ shard = <<>>

InitShard ==
    /\ spc = "run"
    /\ hosts \in HostLists
    /\ ntrain \in 0..MaxTrain
    /\ shard = [k \in 1..Len(hosts) |-> <<>>]

\* The host hosts[k] runs train() up to the construction of its train_iterator.
ComputeShard ==
    /\ spc = "run"
    /\ \E k \in 1..Len(hosts) :
        /\ shard[k] = <<>>
        /\ shard' = [shard EXCEPT ![k] = ShardRange(hosts, hosts[k], ntrain)]
    /\ UNCHANGED <<spc, hosts, ntrain>>
    /\ UNCHANGED <<vocabVars, iterVars, trainVars>>

TrainOff == tpc = "off" /\ tr = <<>> /\ train_iterator = NoIter /\ val_iterator = NoIter

(***************************************************************************)
(* train(): the epoch loop of one host                                     *)
(***************************************************************************)
\* Encoded training and validation sentences, and host lists, that are explored.
TrainPool  == {<<4>>, <<5, 4>>}
TrainHosts == {<<"algo-1">>, <<"algo-1", "algo-2">>}

\* Arguments of the two BucketSentenceIter(...) calls of train()
TrainIterArgs(t) ==
    LET r == ShardRange(t.hosts, t.current_host, Len(t.train_sentences))
        n == Len(t.train_sentences)
    IN  [sentences |-> Slice(t.train_sentences, Min(r[1], n), Min(r[2], n) - Min(r[1], n)),
         labels |-> Slice(t.train_labels, Min(r[1], n), Min(r[2], n) - Min(r[1], n)),
         batch_size |-> t.batch_size, buckets |-> <<>>, invalid_label |-> 0,
         layout |-> "NT"]

ValIterArgs(t) ==
    [sentences |-> t.val_sentences, labels |-> t.val_labels,
     batch_size |-> t.batch_size, buckets |-> <<>>, invalid_label |-> 0,
     layout |-> "NT"]

InitTrain ==
    /\ tpc = "start"
    /\ \E hs \in TrainHosts, ts \in SeqsUpTo(TrainPool, MaxTrainSent),
          vs \in SeqsUpTo(TrainPool, MaxValSent),
          bs \in BatchSizes, ep \in 0..MaxEpochs :
        \E k \in 1..Len(hs) :
            tr = [hosts |-> hs, current_host |-> hs[k],
                  train_sentences |-> ts, train_labels |-> [x \in 1..Len(ts) |-> x % 2],
                  val_sentences |-> vs, val_labels |-> [x \in 1..Len(vs) |-> x % 2],
                  batch_size |-> bs, epochs |-> ep,
                  epoch |-> 0, i |-> 0, seen |-> <<>>, vseen |-> <<>>]
    /\ train_iterator = NoIter
    /\ val_iterator = NoIter

\* train() up to the training loop: both iterators are constructed
TrainSetup ==
    /\ tpc = "start"
    /\ ~InitRaises(TrainIterArgs(tr)) /\ ~InitRaises(ValIterArgs(tr))
    /\ train_iterator' \in ResetResults(Constructed(TrainIterArgs(tr)))
    /\ val_iterator' \in ResetResults(Constructed(ValIterArgs(tr)))
    /\ tpc' = IF tr.epochs = 0 THEN "done" ELSE "train"
    /\ UNCHANGED tr
    /\ UNCHANGED <<vocabVars, iterVars, shardVars>>

\* a BucketSentenceIter constructor raises: train() fails
TrainSetupRaises ==
    /\ tpc = "start"
    /\ InitRaises(TrainIterArgs(tr)) \/ InitRaises(ValIterArgs(tr))
    /\ tpc' = "error"
    /\ UNCHANGED <<tr, train_iterator, val_iterator>>
    /\ UNCHANGED <<vocabVars, iterVars, shardVars>>

\* for batch in train_iterator: one pass of the loop body
TrainBatch ==
    /\ tpc = "train"
    /\ ~NextRaises(train_iterator)
    /\ train_iterator' = AfterNext(train_iterator)
    /\ tr' = [tr EXCEPT !.i = @ + 1,
                        !.seen = Append(@, train_iterator.idx[train_iterator.curr_idx + 1])]
    /\ UNCHANGED <<tpc, val_iterator>>
    /\ UNCHANGED <<vocabVars, iterVars, shardVars>>

\* the training loop ends with StopIteration; test() starts with val_data.reset()
TrainLoopEnd ==
    /\ tpc = "train"
    /\ NextRaises(train_iterator)
    /\ val_iterator' \in ResetResults(val_iterator)
    /\ tr' = [tr EXCEPT !.vseen = <<>>]
    /\ tpc' = "val"
    /\ UNCHANGED train_iterator
    /\ UNCHANGED <<vocabVars, iterVars, shardVars>>

\* test(): for batch in val_data: one pass of the loop body
ValBatch ==
    /\ tpc = "val"
    /\ ~NextRaises(val_iterator)
    /\ val_iterator' = AfterNext(val_iterator)
    /\ tr' = [tr EXCEPT !.vseen = Append(@, val_iterator.idx[val_iterator.curr_idx + 1])]
    /\ UNCHANGED <<tpc, train_iterator>>
    /\ UNCHANGED <<vocabVars, iterVars, shardVars>>

\* test() returns; train_iterator.reset(); the next epoch starts (metric.reset(), i = 0)
EpochEnd ==
    /\ tpc = "val"
    /\ NextRaises(val_iterator)
    /\ train_iterator' \in ResetResults(train_iterator)
    /\ tr' = [tr EXCEPT !.epoch = @ + 1, !.i = 0,
                        !.seen = IF tr.epoch + 1 = tr.epochs THEN @ ELSE <<>>]
    /\ tpc' = IF tr.epoch + 1 = tr.epochs THEN "done" ELSE "train"
    /\ UNCHANGED val_iterator
    /\ UNCHANGED <<vocabVars, iterVars, shardVars>>

\* The elements of a list
Range(seq) == {seq[k] : k \in 1..Len(seq)}

(***************************************************************************)
(* Specifications                                                          *)
(***************************************************************************)
NextVocab == CreateVocab \/ EncodeTrain \/ TransformEncode
StartVocab == InitVocab /\ IterOff /\ ShardOff /\ TrainOff
SpecVocab == StartVocab /\ [][NextVocab]_vars

NextIter == Construct \/ ConstructRaises \/ Reset \/ Next \/ NextStop
StartIter == VocabOff /\ InitIter /\ ShardOff /\ TrainOff
SpecIter == StartIter /\ [][NextIter]_vars

NextShard == ComputeShard
StartShard == VocabOff /\ IterOff /\ InitShard /\ TrainOff
SpecShard == StartShard /\ [][NextShard]_vars

NextTrain == TrainSetup \/ TrainSetupRaises \/ TrainBatch \/ TrainLoopEnd
                \/ ValBatch \/ EpochEnd
StartTrain == VocabOff /\ IterOff /\ ShardOff /\ InitTrain
SpecTrain == StartTrain /\ [][NextTrain]_vars

(***************************************************************************)
(* Properties of create_vocab and of the encoding                          *)
(***************************************************************************)
VocabBuilt == vpc \in {"vocab", "encoded"}

\* Number of occurrences of w in the corpus
Count(w) ==
    Cardinality({pos \in (1..Len(corpus)) \X (1..MaxTokens) :
                    pos[2] <= Len(corpus[pos[1]]) /\ corpus[pos[1]][pos[2]] = w})

\* Corpus tokens frequent enough, and the tokens that got an id after the reserved four
Qualified == {w \in CorpusTokens : Count(w) >= 1 /\ Count(w) >= min_count}
Kept      == {w \in DOMAIN word_to_id : word_to_id[w] >= Len(VOCAB_SYMBOLS)}

\* u comes before w: decreasing count, ties by descending token string
Precedes(u, w) == Count(u) > Count(w) \/ (Count(u) = Count(w) /\ StrLess(w, u))

\* C3: whatever the corpus, the returned mapping gives '<pad>' the id 0, '<unk>' 1,
\* '<s>' 2 and '</s>' 3.
C3_ReservedIdsFixed ==
    VocabBuilt =>
        /\ word_to_id["<pad>"] = 0
        /\ word_to_id["<unk>"] = 1
        /\ word_to_id["<s>"] = 2
        /\ word_to_id["</s>"] = 3

\* C4: a corpus token is kept only if it occurs at least min_count times, at most
\* num_words tokens are kept, they are the most frequent ones, and the kept tokens
\* get the ids 4, 5, ... by decreasing count, ties by descending token string; so the
\* result is a function of the counts alone.
C4_PrunedByCount ==
    VocabBuilt =>
        /\ Kept \subseteq Qualified
        /\ Cardinality(Kept) = Min(num_words, Cardinality(Qualified))
        /\ \A w \in Kept :
            word_to_id[w] = Len(VOCAB_SYMBOLS)
                              + Cardinality({u \in Qualified : Precedes(u, w)})

\* Two tokens tie at count 2, a third one is pruned, and num_words cuts the tie.
C4_Witness ==
    /\ vpc = "vocab"
    /\ min_count = 2 /\ num_words = 1
    /\ Count("a") = 2 /\ Count("b") = 2 /\ Count("<pad>") = 1
    /\ corpus[1][1] = "a"
    /\ "b" \in DOMAIN word_to_id /\ word_to_id["b"] = 4
    /\ "a" \notin DOMAIN word_to_id

\* C9: the ids of the vocabulary are exactly 0 .. len(vocab)-1, no two tokens share
\* one, and every id an encoding produces lies in that range.
C9_IdsIndexEmbedding ==
    /\ VocabBuilt =>
        /\ {word_to_id[w] : w \in DOMAIN word_to_id} = 0..(Cardinality(DOMAIN word_to_id) - 1)
        /\ \A u, w \in DOMAIN word_to_id : word_to_id[u] = word_to_id[w] => u = w
    /\ vpc = "encoded" =>
        \A k \in 1..Len(encoded) : encoded[k] \in 0..(Cardinality(DOMAIN word_to_id) - 1)

(***************************************************************************)
(* Properties of BucketSentenceIter                                        *)
(***************************************************************************)
Ready == ipc = "ready"

\* The bucket sizes that can hold a sentence of length n
Fitting(n) == {it.buckets[b] : b \in {c \in 1..Len(it.buckets) : it.buckets[c] >= n}}

\* The sentences (0-based indices) of the batches returned since the last reset()
ServedSentences == UNION {Range(served[k]) : k \in 1..Len(served)}

\* C1: a sentence no longer than the largest bucket is stored in the bucket of the
\* smallest size >= its length (and in no other); a longer sentence is stored in no
\* bucket and is in no batch next() returns.
C1_SmallestFittingBucket ==
    Ready =>
        \A k \in 1..Len(args.sentences) :
            LET n == Len(args.sentences[k])
                holders == {b \in 1..Len(it.buckets) : (k - 1) \in Range(it.src[b])}
            IN  IF Fitting(n) = {}
                THEN /\ holders = {}
                     /\ (k - 1) \notin ServedSentences
                     /\ batch.kind = "batch" => (k - 1) \notin Range(batch.value.src)
                ELSE /\ Cardinality(holders) = 1
                     /\ \A b \in holders :
                            /\ it.buckets[b] \in Fitting(n)
                            /\ \A size \in Fitting(n) : it.buckets[b] <= size
                            /\ Cardinality({r \in 1..Len(it.src[b]) : it.src[b][r] = k - 1}) = 1

\* One sentence was discarded, the other skipped a bucket too small for it and was
\* returned in a batch.
C1_Witness ==
    /\ Ready
    /\ it.ndiscard = 1
    /\ Len(it.buckets) = 2
    /\ Len(it.src[2]) = 1
    /\ Len(args.sentences[it.src[2][1] + 1]) > it.buckets[1]
    /\ batch.kind = "batch"
    /\ batch.value.bucket_key = it.buckets[2]

\* C2: with layout 'NT' every batch next() returns has exactly batch_size rows, each
\* as long as the batch's bucket_key, and exactly batch_size labels.
C2_FullBatchesOnly ==
    (Ready /\ it.layout = "NT" /\ batch.kind = "batch") =>
        /\ Len(batch.value.data) = it.batch_size
        /\ \A r \in 1..Len(batch.value.data) :
            Len(batch.value.data[r]) = batch.value.bucket_key
        /\ Len(batch.value.label) = it.batch_size

\* A batch of two rows of length 2, from a bucket that reset() has shuffled.
C2_Witness ==
    /\ Ready /\ it.layout = "NT" /\ batch.kind = "batch"
    /\ it.batch_size = 2
    /\ batch.value.bucket_key = 2
    /\ it.src[1] = <<1, 0>>

\* C5: every row stored in bucket k has length buckets[k], starts with the ids of
\* the sentence it was built from, in order, and is invalid_label from there on;
\* in every state, whatever the number of reset() calls.
C5_RowsPadded ==
    Ready =>
        \A b \in 1..Len(it.buckets) :
            \A r \in 1..Len(it.data[b]) :
                LET row  == it.data[b][r]
                    sent == args.sentences[it.src[b][r] + 1]
                IN  /\ Len(row) = it.buckets[b]
                    /\ \A k \in 1..Len(row) :
                        row[k] = IF k <= Len(sent) THEN sent[k] ELSE it.invalid_label

\* A bucket whose rows are padded with a non-zero invalid_label and that a reset()
\* has put in another order than the constructor's loop.
C5_Witness ==
    /\ Ready
    /\ it.invalid_label = 7
    /\ \E b \in 1..Len(it.buckets) :
        /\ Len(it.src[b]) = 2
        /\ it.src[b][1] > it.src[b][2]
        /\ Len(args.sentences[it.src[b][1] + 1]) < it.buckets[b]
        /\ it.data[b][1][it.buckets[b]] = 7

\* n_k div batch_size, summed over the buckets
RECURSIVE FullBatches(_)
FullBatches(b) ==
    IF b = 0 THEN 0 ELSE FullBatches(b - 1) + (Len(it.data[b]) \div it.batch_size)

C6_State ==
    Ready =>
        /\ 0 <= it.curr_idx /\ it.curr_idx <= Len(it.idx)
        /\ Len(it.idx) = FullBatches(Len(it.data))
        /\ Len(served) = it.curr_idx
        /\ batch.kind = "StopIteration" => Len(served) = FullBatches(Len(it.data))
        /\ batch.kind = "batch" => Len(served) >= 1

C6_Step ==
    (Ready /\ ipc' = "ready") =>
        /\ batch'.kind = "None" => it'.curr_idx = 0 /\ served' = <<>>
        /\ batch'.kind = "StopIteration" =>
            it.curr_idx = Len(it.idx) /\ it'.curr_idx = it.curr_idx
        /\ batch'.kind = "batch" =>
            it.curr_idx < Len(it.idx) /\ it'.curr_idx = it.curr_idx + 1

\* C6: reset() rewinds: after a reset(), next() returns exactly sum_k floor(n_k /
\* batch_size) batches, then raises StopIteration and leaves curr_idx alone until
\* the next reset(); 0 <= curr_idx <= len(idx) throughout.
C6_ResetRewinds == []C6_State /\ [][C6_Step]_vars

\* Both batches of an epoch were returned and next() has raised StopIteration.
C6_Witness ==
    /\ Ready
    /\ batch.kind = "StopIteration"
    /\ Len(served) = 2
    /\ it.curr_idx = 2

\* The entry of row r, position k of a returned batch
BatchCell(r, k) ==
    IF it.major_axis = 1 THEN batch.value.data[k][r] ELSE batch.value.data[r][k]

\* C8: every row next() returns comes with the label given for the sentence the row
\* was built from, and between two resets no stored sentence is returned twice.
C8_LabelsFollowRows ==
    /\ (Ready /\ batch.kind = "batch") =>
        \A r \in 1..Len(batch.value.src) :
            LET k == batch.value.src[r] + 1
            IN  /\ batch.value.label[r] = args.labels[k]
                /\ \A c \in 1..Len(args.sentences[k]) :
                    BatchCell(r, c) = args.sentences[k][c]
    /\ Ready =>
        \A m, n \in 1..Len(served) :
            \A r \in 1..Len(served[m]), q \in 1..Len(served[n]) :
                served[m][r] = served[n][q] => (m = n /\ r = q)

\* Second batch of an epoch; the bucket holds two sentences with different labels in
\* the opposite of their input order.
C8_Witness ==
    /\ Ready /\ batch.kind = "batch"
    /\ Len(served) = 2
    /\ Len(it.src) = 1
    /\ it.src[1] = <<1, 0>>
    /\ args.labels[1] # args.labels[2]
    /\ Len(args.sentences[1]) > 0

(***************************************************************************)
(* Properties of train()                                                   *)
(***************************************************************************)
\* Every entry of `all` occurs exactly once in `seen`, and nothing else does.
EachExactlyOnce(seen, all) ==
    /\ Len(seen) = Len(all)
    /\ \A e \in Range(all) : Cardinality({k \in 1..Len(seen) : seen[k] = e}) = 1

\* C7: every epoch starts with the training iterator at position 0 and has passed
\* every training batch exactly once when its validation pass starts; the validation
\* pass starts from a freshly reset validation iterator and passes every validation
\* batch exactly once; train() runs `epochs` epochs.
C7_EveryEpochFromTheStart ==
    /\ tpc = "train" =>
        /\ train_iterator.curr_idx = tr.i
        /\ tr.seen = SubSeq(train_iterator.idx, 1, tr.i)
    /\ tpc = "val" =>
        /\ EachExactlyOnce(tr.seen, train_iterator.idx)
        /\ val_iterator.curr_idx = Len(tr.vseen)
        /\ tr.vseen = SubSeq(val_iterator.idx, 1, Len(tr.vseen))
    /\ (tpc \in {"train", "done"} /\ tr.epoch > 0) =>
        EachExactlyOnce(tr.vseen, val_iterator.idx)
    /\ tpc = "done" => tr.epoch = tr.epochs
    /\ tpc \in {"train", "val"} => tr.epoch < tr.epochs

\* Two epochs of two training batches and one validation batch each have run.
C7_Witness ==
    /\ tpc = "done"
    /\ tr.epochs = 2 /\ tr.epoch = 2
    /\ Len(train_iterator.idx) = 2 /\ Len(tr.seen) = 2
    /\ Len(val_iterator.idx) = 1 /\ Len(tr.vseen) = 1

Sharded == {k \in 1..Len(hosts) : shard[k] # <<>>}
ShardOf(k) == SliceIndices(shard[k], ntrain)

\* The shards computed so far are disjoint contiguous ranges of equal size.
ShardsDisjointEqual ==
    /\ \A k \in Sharded :
        /\ ShardOf(k) = {x \in 0..(ntrain - 1) : shard[k][1] <= x /\ x < shard[k][2]}
        /\ \A j \in Sharded :
            /\ Cardinality(ShardOf(j)) = Cardinality(ShardOf(k))
            /\ j # k => ShardOf(j) \cap ShardOf(k) = {}

\* C10 as stated: the shards of the hosts are disjoint contiguous ranges of equal
\* size and together they cover all training sentences.
C10_ShardsCoverAll ==
    spc = "run" =>
        /\ ShardsDisjointEqual
        /\ Sharded = 1..Len(hosts) =>
            UNION {ShardOf(k) : k \in Sharded} = 0..(ntrain - 1)

\* C10 as amended: the shards are disjoint contiguous ranges of floor(n / h)
\* sentences each and together they cover exactly the first h * floor(n / h)
\* training sentences; the last n mod h sentences are in no host's shard.
C10_ShardsCoverPrefix ==
    spc = "run" =>
        /\ ShardsDisjointEqual
        /\ \A k \in Sharded : Cardinality(ShardOf(k)) = ntrain \div Len(hosts)
        /\ Sharded = 1..Len(hosts) =>
            UNION {ShardOf(k) : k \in Sharded}
                = 0..(Len(hosts) * (ntrain \div Len(hosts)) - 1)

\* Three hosts have split five sentences.
C10_Witness ==
    /\ spc = "run"
    /\ Len(hosts) = 3 /\ ntrain = 5
    /\ Sharded = 1..Len(hosts)
====
